---------------------------- MODULE Spec2Model ----------------------------
(***************************************************************************)
(* RESCUE RADAR backend (src/app.py): the victim_readings table and the    *)
(* HTTP handlers that write it, served by a threaded Flask server          *)
(* (app.run(..., threaded=True)).  Every request runs in its own thread    *)
(* with its own SQLAlchemy session; the table is the only shared state.    *)
(*                                                                         *)
(* Storage is the default SQLite database (app.py line 69):                *)
(*   - victim_id carries a UNIQUE constraint (line 286);                   *)
(*   - id is INTEGER PRIMARY KEY, so a new row gets max(id) + 1;           *)
(*   - a Float column has REAL affinity: a numeric string is converted to  *)
(*     a number, any other text is stored as it is.                        *)
(* The ORM's unit of work emits, at commit, an INSERT for a new object and *)
(* for a loaded object an UPDATE ... WHERE id = <loaded id> that sets only *)
(* the attributes whose value differs from the loaded one.                 *)
(***************************************************************************)
EXTENDS Integers, FiniteSets, Sequences, TLC

\* ------------------------------------------------------------- bounds
NumThreads == 2      \* request threads of the threaded server
MaxRequests == 2     \* requests of one run of the threaded server
MaxTicks == 1        \* clock advances in such a run
MaxSerial == 2       \* requests of one serial run
MaxRaceRequests == 3 \* submissions of one run of concurrent submissions
MaxRaceTicks == 2    \* clock advances in such a run
MaxClearRequests == 4 \* requests of one run of submissions, clear-readings and reset-db

\* seconds per clock advance of the model
TickSeconds == 10

Threads == 1 .. NumThreads

\* ------------------------------------------------------------- JSON values
\* A JSON value of the request body: missing/null, a number, a string that
\* float() accepts, or a string that float() rejects.
JNull == [k |-> "null", n |-> 0]
JNum(x) == [k |-> "num", n |-> x]
JStr(x) == [k |-> "str", n |-> x]
JBad == [k |-> "bad", n |-> 0]

\* float(v) of Python, for v that is not None: raises on a non-numeric string.
FloatRaises(v) == v.k = "bad"
FloatOf(v) == JNum(v.n)

\* lines 435-448: float(x) if x is not None else None; None when float raises
CoerceOptional(v) ==
    IF v.k = "null" THEN JNull
    ELSE IF FloatRaises(v) THEN JNull
    ELSE FloatOf(v)

\* the distance check with 0 < distance_cm in place of 0 <= distance_cm
DistanceErrorExclusive(v) ==
    IF v.k = "null" THEN "distance_cm required"
    ELSE IF FloatRaises(v) THEN "Invalid number"
    ELSE IF ~(0 < v.n /\ v.n <= 10000) THEN "Invalid distance"
    ELSE ""

\* lines 420-428: the error of the distance check, "" when it passes
DistanceError(v) ==
    IF v.k = "null" THEN "distance_cm required"
    ELSE IF FloatRaises(v) THEN "Invalid number"
    ELSE IF ~(0 <= v.n /\ v.n <= 10000) THEN "Invalid distance"
    ELSE ""

\* line 75 / 316: the configured write key and the header values tried
WRITE_API_KEY == "rescue-radar-dev"
Keys == {WRITE_API_KEY, "wrong", "missing"}
\* a key check that only asks for the header to be there
RequireAnyKey(key) == key # "missing"

require_key(key) == key = WRITE_API_KEY

\* ------------------------------------------------------------- inputs
VictimIds == {"v1", "v2"}
VictimInputs == VictimIds \cup {""} \* "" stands for a missing or empty victim_id

\* line 450: f"vic-{uuid.uuid4().hex[:8]}", a fresh id for the n-th request
GeneratedId(n) == "vic-" \o ToString(n)

Payload(d, t, h, g, la, lo) ==
    [distance_cm |-> d, temperature |-> t, humidity |-> h, gas |-> g,
     latitude |-> la, longitude |-> lo]

DistanceInputs ==
    {JNull, JBad, JNum(-1), JNum(0), JNum(1), JStr(1), JNum(10000), JNum(10001)}

\* optional-field combinations: all present, one field changed, one field
\* malformed, all missing
Payloads ==
    {Payload(d, JNum(20), JNum(40), JNum(5), JNum(1), JNum(2)) : d \in DistanceInputs}
    \cup {Payload(JNum(10000), JNum(25), JNum(40), JNum(5), JNum(1), JNum(2)),
          Payload(JNum(10000), JNull, JNull, JNull, JNull, JNull),
          Payload(JNum(10000), JBad, JNum(40), JNum(5), JNum(1), JNum(2)),
          Payload(JNum(10000), JNum(20), JBad, JNum(5), JNum(1), JNum(2)),
          Payload(JNum(10000), JNum(20), JNum(40), JBad, JNum(1), JNum(2)),
          Payload(JNum(10000), JNum(20), JNum(40), JNum(5), JBad, JStr(2)),
          Payload(JNum(10000), JNum(20), JNum(40), JNum(5), JStr(1), JBad)}

\* ------------------------------------------------------------- state
VARIABLES
    table,        \* the rows of victim_readings
    tableExists,  \* whether the table exists (drop_all / create_all)
    now,          \* datetime.utcnow(), in seconds
    pc,           \* per thread: where its handler stands
    req,          \* per thread: create_reading's locals (data and parsed fields)
    snap,         \* per thread: the row its session loaded (NoRow: none)
    oid,          \* per thread: the id of the session's object (0: not flushed)
    newts,        \* per thread: the timestamp it assigned
    resp,         \* the response sent last
    nreq          \* requests started so far

vars == <<table, tableExists, now, pc, req, snap, oid, newts, resp, nreq>>

\* VictimReading (lines 282-298)
Row(i, v, d, t, h, g, la, lo, ts) ==
    [id |-> i, victim_id |-> v, distance_cm |-> d, temperature_c |-> t,
     humidity_pct |-> h, gas_ppm |-> g, latitude |-> la, longitude |-> lo,
     timestamp |-> ts]

NoRow == Row(0, "", 0, JNull, JNull, JNull, JNull, JNull, 0)
NoReq == [data |-> Payload(JNull, JNull, JNull, JNull, JNull, JNull),
          victim_id |-> "", distance_cm |-> 0, temperature_c |-> JNull,
          humidity_pct |-> JNull, gas_ppm |-> JNull]
NoResp == [status |-> 0, action |-> "", error |-> ""]

Ok(action) == [status |-> 200, action |-> action, error |-> ""]

\* an error handler that answers every failure with status 200
ErrSwallowed(status, msg) == [status |-> 200, action |-> "", error |-> msg]

Err(status, msg) == [status |-> status, action |-> "", error |-> msg]

Init ==
    /\ table = {}
    /\ tableExists = TRUE
    /\ now = 0
    /\ pc = [t \in Threads |-> "idle"]
    /\ req = [t \in Threads |-> NoReq]
    /\ snap = [t \in Threads |-> NoRow]
    /\ oid = [t \in Threads |-> 0]
    /\ newts = [t \in Threads |-> 0]
    /\ resp = NoResp
    /\ nreq = 0


\* ------------------------------------------------------------- helpers
\* A request is handed to a worker thread of its own; the threads are alike,
\* so the first idle one takes it.
Free(t) ==
    /\ pc[t] = "idle"
    /\ \A u \in Threads : u < t => pc[u] # "idle"

\* the handler of thread t returns response r (its session is discarded)
Finish(t, r) ==
    /\ pc' = [pc EXCEPT ![t] = "idle"]
    /\ req' = [req EXCEPT ![t] = NoReq]
    /\ snap' = [snap EXCEPT ![t] = NoRow]
    /\ oid' = [oid EXCEPT ![t] = 0]
    /\ newts' = [newts EXCEPT ![t] = 0]
    /\ resp' = r

\* VictimReading.query.filter_by(victim_id=v).first() (line 453)
Lookup(v) ==
    IF \E r \in table : r.victim_id = v
    THEN CHOOSE r \in table : r.victim_id = v
    ELSE NoRow

\* what a Float column of SQLite keeps of a bound value (REAL affinity)
StoreFloat(v) == IF v.k = "str" THEN JNum(v.n) ELSE v

\* victim_id without its UNIQUE constraint
NoUniqueConstraint(v) == FALSE

\* the UNIQUE constraint on victim_id (line 286) rejects the INSERT
UniqueViolation(v) == \E r \in table : r.victim_id = v

\* the id SQLite gives a new row
NextId == IF table = {} THEN 1
          ELSE 1 + (CHOOSE i \in {r.id : r \in table} : \A r \in table : r.id <= i)

\* an update branch that forgets reading.distance_cm = distance_cm
FlushedWithoutDistance(old, cur, q, ts) ==
    [cur EXCEPT
        !.temperature_c = IF q.temperature_c # old.temperature_c
                          THEN q.temperature_c ELSE @,
        !.humidity_pct = IF q.humidity_pct # old.humidity_pct
                         THEN q.humidity_pct ELSE @,
        !.gas_ppm = IF q.gas_ppm # old.gas_ppm THEN q.gas_ppm ELSE @,
        !.latitude = IF q.data.latitude # old.latitude
                     THEN StoreFloat(q.data.latitude) ELSE @,
        !.longitude = IF q.data.longitude # old.longitude
                      THEN StoreFloat(q.data.longitude) ELSE @,
        !.timestamp = IF ts # old.timestamp THEN ts ELSE @]

\* an update branch that keeps the stored value of an optional field the
\* payload leaves out
FlushedKeepingMissing(old, cur, q, ts) ==
    [cur EXCEPT
        !.distance_cm = q.distance_cm,
        !.temperature_c = IF q.temperature_c # JNull THEN q.temperature_c ELSE @,
        !.humidity_pct = IF q.humidity_pct # JNull THEN q.humidity_pct ELSE @,
        !.gas_ppm = IF q.gas_ppm # JNull THEN q.gas_ppm ELSE @,
        !.latitude = IF q.data.latitude # JNull
                     THEN StoreFloat(q.data.latitude) ELSE @,
        !.longitude = IF q.data.longitude # JNull
                      THEN StoreFloat(q.data.longitude) ELSE @,
        !.timestamp = ts]

\* the attributes of a loaded row that the flush writes: those assigned a
\* value different from the loaded one (lines 455-461, flushed at line 477)
Flushed(old, cur, q, ts) ==
    [cur EXCEPT
        !.distance_cm = IF q.distance_cm # old.distance_cm
                        THEN q.distance_cm ELSE @,
        !.temperature_c = IF q.temperature_c # old.temperature_c
                          THEN q.temperature_c ELSE @,
        !.humidity_pct = IF q.humidity_pct # old.humidity_pct
                         THEN q.humidity_pct ELSE @,
        !.gas_ppm = IF q.gas_ppm # old.gas_ppm THEN q.gas_ppm ELSE @,
        !.latitude = IF q.data.latitude # old.latitude
                     THEN StoreFloat(q.data.latitude) ELSE @,
        !.longitude = IF q.data.longitude # old.longitude
                      THEN StoreFloat(q.data.longitude) ELSE @,
        !.timestamp = IF ts # old.timestamp THEN ts ELSE @]

\* whether the flush has anything to write
Dirty(old, q, ts) ==
    \/ q.distance_cm # old.distance_cm
    \/ q.temperature_c # old.temperature_c
    \/ q.humidity_pct # old.humidity_pct
    \/ q.gas_ppm # old.gas_ppm
    \/ q.data.latitude # old.latitude
    \/ q.data.longitude # old.longitude
    \/ ts # old.timestamp

\* an insert branch with latitude and longitude exchanged
NewRowSwapped(i, q, ts) ==
    Row(i, q.victim_id, q.distance_cm, q.temperature_c, q.humidity_pct,
        q.gas_ppm, StoreFloat(q.data.longitude), StoreFloat(q.data.latitude), ts)

\* VictimReading(...) of lines 464-473 as the row the INSERT stores
NewRow(i, q, ts) ==
    Row(i, q.victim_id, q.distance_cm, q.temperature_c, q.humidity_pct,
        q.gas_ppm, StoreFloat(q.data.latitude), StoreFloat(q.data.longitude), ts)

\* ------------------------------------------------------------- create_reading
\* lines 417-450: the locals of the handler once the request is validated
Parsed(v, p) ==
    [data |-> p,
     victim_id |-> v,
     distance_cm |-> FloatOf(p.distance_cm).n,
     temperature_c |-> CoerceOptional(p.temperature),
     humidity_pct |-> CoerceOptional(p.humidity),
     gas_ppm |-> CoerceOptional(p.gas)]

\* POST /api/v1/readings, lines 414-453: key check, validation, lookup
SubmitReading(t, key, vin, p) ==
    /\ Free(t)
    /\ nreq' = nreq + 1
    /\ UNCHANGED <<table, tableExists, now>>
    /\ IF ~require_key(key)
       THEN Finish(t, Err(401, "Unauthorized"))
       ELSE IF DistanceError(p.distance_cm) # ""
       THEN Finish(t, Err(400, DistanceError(p.distance_cm)))
       ELSE LET v == IF vin = "" THEN GeneratedId(nreq) ELSE vin IN
              IF ~tableExists
              THEN Finish(t, Err(500, "Database error"))
              ELSE /\ pc' = [pc EXCEPT ![t] = "loaded"]
                   /\ req' = [req EXCEPT ![t] = Parsed(v, p)]
                   /\ snap' = [snap EXCEPT ![t] = Lookup(v)]
                   /\ oid' = [oid EXCEPT ![t] = Lookup(v).id]
                   /\ UNCHANGED <<newts, resp>>

\* lines 454-475: the field assignments, with the clock read of line 461/472
AssignFields(t) ==
    /\ pc[t] = "loaded"
    /\ pc' = [pc EXCEPT ![t] = "assigned"]
    /\ newts' = [newts EXCEPT ![t] = now]
    /\ UNCHANGED <<table, tableExists, now, req, snap, oid, resp, nreq>>

\* the handler goes on to build its response
Committed(t, i) ==
    /\ pc' = [pc EXCEPT ![t] = "committed"]
    /\ oid' = [oid EXCEPT ![t] = i]
    /\ UNCHANGED <<req, snap, newts, resp>>

\* line 477, db.session.commit(): the flush and the commit; a SQLAlchemyError
\* is caught at lines 488-491, which roll back and answer 500
CommitReading(t) ==
    /\ pc[t] = "assigned"
    /\ UNCHANGED <<tableExists, now, nreq>>
    /\ IF snap[t] = NoRow
       THEN \* INSERT INTO victim_readings
            IF ~tableExists \/ UniqueViolation(req[t].victim_id)
            THEN /\ table' = table
                 /\ Finish(t, Err(500, "Database error"))
            ELSE /\ table' = table \cup {NewRow(NextId, req[t], newts[t])}
                 /\ Committed(t, NextId)
       ELSE \* UPDATE victim_readings SET ... WHERE id = snap[t].id
            IF ~Dirty(snap[t], req[t], newts[t])
            THEN /\ table' = table
                 /\ Committed(t, oid[t])
            ELSE IF ~tableExists \/ ~(\E r \in table : r.id = snap[t].id)
            THEN /\ table' = table
                 /\ Finish(t, Err(500, "Database error"))
            ELSE /\ table' = {IF r.id = snap[t].id
                              THEN Flushed(snap[t], r, req[t], newts[t])
                              ELSE r : r \in table}
                 /\ Committed(t, oid[t])

\* lines 478-487: the log line and the response; reading.to_dict() reloads the
\* committed object by its id, and fails (500) when its row is gone
Respond(t) ==
    /\ pc[t] = "committed"
    /\ UNCHANGED <<table, tableExists, now, nreq>>
    /\ IF tableExists /\ \E r \in table : r.id = oid[t]
       THEN Finish(t, Ok(IF snap[t] = NoRow THEN "CREATED" ELSE "UPDATED"))
       ELSE Finish(t, Err(500, "Database error"))

\* ------------------------------------------------------------- admin endpoints
\* POST /admin/reset-db, lines 354-358: key check and db.drop_all()
ResetDbDrop(t, key) ==
    /\ Free(t)
    /\ nreq' = nreq + 1
    /\ UNCHANGED now
    /\ IF ~require_key(key)
       THEN /\ UNCHANGED <<table, tableExists>>
            /\ Finish(t, Err(401, "Unauthorized"))
       ELSE /\ table' = {}
            /\ tableExists' = FALSE
            /\ pc' = [pc EXCEPT ![t] = "dropped"]
            /\ UNCHANGED <<req, snap, oid, newts, resp>>

\* POST /admin/reset-db, lines 359-360: db.create_all()
ResetDbCreate(t) ==
    /\ pc[t] = "dropped"
    /\ tableExists' = TRUE
    /\ UNCHANGED <<table, now, nreq>>
    /\ Finish(t, Ok("database reset success"))

\* POST /admin/clear-readings, lines 520-528
ClearReadings(t, key) ==
    /\ Free(t)
    /\ nreq' = nreq + 1
    /\ UNCHANGED <<tableExists, now>>
    /\ IF ~require_key(key)
       THEN /\ UNCHANGED table
            /\ Finish(t, Err(401, "Unauthorized"))
       ELSE IF ~tableExists
       THEN /\ UNCHANGED table
            /\ Finish(t, Err(500, "no such table"))
       ELSE /\ table' = {}
            /\ Finish(t, Ok("cleared"))

\* POST /admin/init-db, lines 559-566: db.create_all()
AdminInitDb(t, key) ==
    /\ Free(t)
    /\ nreq' = nreq + 1
    /\ UNCHANGED <<table, now>>
    /\ IF ~require_key(key)
       THEN /\ UNCHANGED tableExists
            /\ Finish(t, Err(401, "Unauthorized"))
       ELSE /\ tableExists' = TRUE
            /\ Finish(t, Ok("Tables created"))

\* lines 574-577: max(timestamp) of every victim_id
MaxTimestamps ==
    {r.timestamp : r \in {x \in table :
        \A y \in table : y.victim_id = x.victim_id => y.timestamp <= x.timestamp}}

\* POST /admin/clean-duplicates, lines 571-587: delete the rows whose
\* timestamp is no victim's latest
CleanDuplicates(t, key) ==
    /\ Free(t)
    /\ nreq' = nreq + 1
    /\ UNCHANGED <<tableExists, now>>
    /\ IF ~require_key(key)
       THEN /\ UNCHANGED table
            /\ Finish(t, Err(401, "Unauthorized"))
       ELSE IF ~tableExists
       THEN /\ UNCHANGED table
            /\ Finish(t, Err(500, "Cleanup failed"))
       ELSE /\ table' = {r \in table : r.timestamp \in MaxTimestamps}
            /\ Finish(t, Ok("cleaned"))

\* ------------------------------------------------------------- time
\* the wall clock read by datetime.utcnow() advances
Tick(limit) ==
    /\ now + TickSeconds <= limit * TickSeconds
    /\ now' = now + TickSeconds
    /\ UNCHANGED <<table, tableExists, pc, req, snap, oid, newts, resp, nreq>>

\* ------------------------------------------------------------- specifications
\* the payloads of the concurrent runs: three valid ones with different
\* distances (two of them with the same temperature) and an invalid one
RacePayloads ==
    {Payload(d, JNum(20), JNum(40), JNum(5), JNum(1), JNum(2)) :
        d \in {JNum(0), JNum(1), JNum(10001)}}
    \cup {Payload(JNum(10000), JNum(25), JNum(40), JNum(5), JNum(1), JNum(2))}

\* the threaded server (line 665): the steps of the handlers interleave
Next ==
    \/ \E t \in Threads, key \in Keys, vin \in VictimIds, p \in RacePayloads :
          nreq < MaxRequests /\ SubmitReading(t, key, vin, p)
    \/ \E t \in Threads : AssignFields(t)
    \/ \E t \in Threads : CommitReading(t)
    \/ \E t \in Threads : Respond(t)
    \/ \E t \in Threads, key \in Keys : nreq < MaxRequests /\ ResetDbDrop(t, key)
    \/ \E t \in Threads : ResetDbCreate(t)
    \/ \E t \in Threads, key \in Keys : nreq < MaxRequests /\ ClearReadings(t, key)
    \/ \E t \in Threads, key \in Keys : nreq < MaxRequests /\ AdminInitDb(t, key)
    \/ \E t \in Threads, key \in Keys : nreq < MaxRequests /\ CleanDuplicates(t, key)
    \/ Tick(MaxTicks)

Spec == Init /\ [][Next]_vars

\* concurrent submissions only: no administrative request in between
RaceNext ==
    \/ \E t \in Threads, vin \in VictimIds, p \in RacePayloads :
          nreq < MaxRaceRequests /\ SubmitReading(t, WRITE_API_KEY, vin, p)
    \/ \E t \in Threads : AssignFields(t)
    \/ \E t \in Threads : CommitReading(t)
    \/ \E t \in Threads : Respond(t)
    \/ Tick(MaxRaceTicks)

RaceSpec == Init /\ [][RaceNext]_vars

\* one client that waits for each response before it sends the next request:
\* a handler starts only when no other is running
Alone == nreq < MaxSerial /\ \A u \in Threads : pc[u] = "idle"

SerialNext ==
    \/ \E t \in Threads, key \in Keys, vin \in VictimInputs, p \in Payloads :
          Alone /\ SubmitReading(t, key, vin, p)
    \/ \E t \in Threads : AssignFields(t)
    \/ \E t \in Threads : CommitReading(t)
    \/ \E t \in Threads : Respond(t)
    \/ \E t \in Threads, key \in Keys : Alone /\ ResetDbDrop(t, key)
    \/ \E t \in Threads : ResetDbCreate(t)
    \/ \E t \in Threads, key \in Keys : Alone /\ ClearReadings(t, key)
    \/ \E t \in Threads, key \in Keys : Alone /\ AdminInitDb(t, key)
    \/ \E t \in Threads, key \in Keys : Alone /\ CleanDuplicates(t, key)
    \/ Tick(MaxTicks)

SerialSpec == Init /\ [][SerialNext]_vars

\* the payloads of the runs with clear-readings: two valid ones that differ
\* in distance and temperature
ClearPayloads ==
    {Payload(JNum(0), JNum(20), JNum(40), JNum(5), JNum(1), JNum(2)),
     Payload(JNum(1), JNum(25), JNum(40), JNum(5), JNum(1), JNum(2))}

\* submissions while an operator clears the readings (lines 518-528) or
\* resets the database (lines 352-362)
ClearNext ==
    \/ \E t \in Threads, vin \in VictimIds, p \in ClearPayloads :
          nreq < MaxClearRequests /\ SubmitReading(t, WRITE_API_KEY, vin, p)
    \/ \E t \in Threads : AssignFields(t)
    \/ \E t \in Threads : CommitReading(t)
    \/ \E t \in Threads : Respond(t)
    \/ \E t \in Threads : nreq < MaxClearRequests /\ ClearReadings(t, WRITE_API_KEY)
    \/ \E t \in Threads : nreq < MaxClearRequests /\ ResetDbDrop(t, WRITE_API_KEY)
    \/ \E t \in Threads : ResetDbCreate(t)

ClearSpec == Init /\ [][ClearNext]_vars

\* ------------------------------------------------------------- properties
\* the records of victim_id v
Stored(v) == {r \in table : r.victim_id = v}

\* the records of victim_id v after the step
StoredNext(v) == {r \in table' : r.victim_id = v}

\* the handler of thread t returns in this step, after its lookup
Finishing(t) == pc[t] \in {"assigned", "committed"} /\ pc'[t] = "idle"

\* the handler of thread t commits in this step
Committing(t) == pc[t] = "assigned" /\ pc'[t] = "committed"

Abs(x) == IF x < 0 THEN -x ELSE x

\* the number a JSON value stands for, null when it is missing
Number(v) == IF v.k \in {"num", "str"} THEN JNum(v.n) ELSE v

\* the six measurement fields of a record
Fields(r) == <<r.distance_cm, r.temperature_c, r.humidity_pct, r.gas_ppm,
               r.latitude, r.longitude>>

\* C1: a submission for a subject with a stored record, whose distance is
\* less than T_v = 2 from the stored one and which comes less than T_t = 10
\* seconds after the stored timestamp, leaves the stored distance as it was.
C1_NoiseKeepsDistance ==
    [][\A t \in Threads :
         (/\ Finishing(t)
          /\ snap[t] # NoRow
          /\ Abs(req[t].distance_cm - snap[t].distance_cm) < 2
          /\ newts[t] - snap[t].timestamp < 10)
         => \A r \in StoredNext(req[t].victim_id) :
               r.distance_cm = snap[t].distance_cm]_vars

\* C2: the table never holds two records with the same victim_id.
C2_OneRecordPerVictim ==
    \A r1 \in table, r2 \in table : r1.victim_id = r2.victim_id => r1 = r2

\* two first submissions for one subject raced: one has inserted the record
\* and is about to answer, the other one was answered 500
C2_Witness ==
    \E t \in Threads :
       /\ pc[t] = "committed"
       /\ snap[t] = NoRow
       /\ nreq = 2
       /\ resp = Err(500, "Database error")
       /\ Cardinality(Stored(req[t].victim_id)) = 1

\* C3: a committed update leaves the record of its victim_id with the six
\* fields of one submission: those of the committing one, or those the record
\* held before (last committed wins, no mix of two submissions).
C3_NoPartialMerge ==
    [][\A t \in Threads :
         (Committing(t) /\ snap[t] # NoRow)
         => \A r \in StoredNext(req[t].victim_id) :
               \/ Fields(r) = Fields(NewRow(0, req[t], 0))
               \/ \E x \in Stored(req[t].victim_id) : Fields(x) = Fields(r)]_vars

\* C4: a valid authorized first submission (its lookup found no record) is
\* never failed by a concurrent one: while the table exists its commit goes
\* through, as it would in a serial execution.
C4_FirstSubmissionNeverFails ==
    [][\A t \in Threads :
         (pc[t] = "assigned" /\ pc'[t] # "assigned" /\ snap[t] = NoRow /\ tableExists)
         => (pc'[t] = "committed" /\ StoredNext(req[t].victim_id) # {})]_vars

\* C5: the stored timestamp of a victim_id never decreases.
C5_TimestampNeverDecreases ==
    [][\A r \in table : \A r2 \in table' :
         r2.victim_id = r.victim_id => r2.timestamp >= r.timestamp]_vars

C7_DistanceValidation ==
    [][nreq' # nreq => \A t \in Threads, vin \in VictimInputs, p \in Payloads :
         (pc[t] = "idle" /\ nreq' # nreq /\ SubmitReading(t, WRITE_API_KEY, vin, p))
         => IF \/ p.distance_cm.k \in {"null", "bad"}
               \/ p.distance_cm.n < 0
               \/ p.distance_cm.n > 10000
            THEN /\ resp'.status = 400
                 /\ pc'[t] = "idle"
                 /\ table' = table
                 /\ tableExists' = tableExists
            ELSE /\ pc'[t] = "loaded"
                 /\ req'[t].distance_cm = p.distance_cm.n]_vars

\* a record with distance 10000 is stored and a later submission was
\* rejected by the validation
C7_Witness ==
    /\ resp.status = 400
    /\ \E r \in table : r.distance_cm = 10000

\* C8: a request to a writing endpoint without the write key is answered 401
\* and leaves the table as it was, whatever its payload.
C8_UnauthorizedChangesNothing ==
    [][nreq' # nreq => \A t \in Threads, key \in Keys \ {WRITE_API_KEY} :
         (\/ \E vin \in VictimIds, p \in RacePayloads : SubmitReading(t, key, vin, p)
          \/ ResetDbDrop(t, key)
          \/ ClearReadings(t, key)
          \/ AdminInitDb(t, key)
          \/ CleanDuplicates(t, key))
         => /\ resp' = Err(401, "Unauthorized")
            /\ pc'[t] = "idle"
            /\ table' = table
            /\ tableExists' = tableExists]_vars

\* a request was answered 401 while the table holds a record
C8_Witness ==
    /\ resp = Err(401, "Unauthorized")
    /\ table # {}

C9_WindowWitness ==
    \E t \in Threads :
       /\ pc[t] = "committed"
       /\ snap[t] # NoRow
       /\ Abs(req[t].distance_cm - snap[t].distance_cm) = 1
       /\ newts[t] - snap[t].timestamp >= 10
       /\ \E r \in table : r.id = oid[t] /\ r.distance_cm = req[t].distance_cm

\* C10: no record ever holds a value that is no number in temperature,
\* humidity, gas, latitude or longitude: a malformed one is stored as null.
C10_OptionalFieldsNumericOrNull ==
    \A r \in table :
       \A v \in {r.temperature_c, r.humidity_pct, r.gas_ppm, r.latitude, r.longitude} :
          v.k \in {"null", "num"}

\* C11: a submission whose lookup or commit fails is answered 5xx, its step
\* leaves the table as it was and its session keeps nothing; a commit step
\* either goes through or fails that way, and a handler answers 5xx after
\* its commit only when its row is gone: nothing of a failed submission is
\* in the table.
C11_FailureLeavesTableUnchanged ==
    [][\A t \in Threads :
         /\ (/\ pc[t] = "idle" /\ nreq' # nreq /\ ~tableExists
             /\ \E vin \in VictimIds, p \in ClearPayloads :
                   SubmitReading(t, WRITE_API_KEY, vin, p))
            => /\ resp'.status >= 500
               /\ pc'[t] = "idle"
               /\ table' = table
               /\ tableExists' = tableExists
         /\ (pc[t] = "assigned" /\ pc'[t] # "assigned")
            => \/ pc'[t] = "committed"
               \/ pc'[t] = "idle" /\ resp'.status >= 500
         /\ (pc[t] = "committed" /\ pc'[t] = "idle")
            => IF \E r \in table : r.id = oid[t]
               THEN resp'.status = 200
               ELSE resp'.status >= 500
         /\ (Finishing(t) /\ resp'.status # 200)
            => /\ resp'.status >= 500
               /\ table' = table
               /\ tableExists' = tableExists
               /\ ~(\E r \in table' : r.id = oid[t])
               /\ snap'[t] = NoRow
               /\ oid'[t] = 0]_vars

\* a submission was answered "Database error", no handler is running and the
\* table holds a record
C11_Witness ==
    /\ resp = Err(500, "Database error")
    /\ \A t \in Threads : pc[t] = "idle"
    /\ table # {}
    /\ nreq >= 3

\* a submission was answered "Database error" because its lookup found no
\* table
C11_LookupWitness ==
    /\ resp = Err(500, "Database error")
    /\ ~tableExists
    /\ \E t \in Threads : pc[t] = "dropped"
    /\ \A t \in Threads : pc[t] \in {"idle", "dropped"}
    /\ nreq = 2

\* an update whose row was deleted in the meantime is about to fail: the
\* session holds a row id that the table no longer has
C11_StaleWitness ==
    \E t \in Threads :
       /\ pc[t] = "assigned"
       /\ snap[t] # NoRow
       /\ tableExists
       /\ table = {}

\* C12: no step of a submission for victim_id A, whatever its outcome,
\* changes or removes the record of another victim_id B.
C12_OtherVictimsUnchanged ==
    [][\A t \in Threads :
         (pc[t] \in {"loaded", "assigned", "committed"} /\ pc'[t] # pc[t])
         => \A r \in table : r.victim_id # req[t].victim_id => r \in table']_vars

\* without administrative requests: the commit of a submission goes through
\* unless a submission for the same victim_id has inserted its record since
\* the lookup, whatever the submissions for other victim_ids do, and it
\* leaves their records as they were
C12_DistinctVictimsIndependent ==
    [][\A t \in Threads :
         (/\ pc[t] = "assigned" /\ pc'[t] # "assigned"
          /\ snap[t] = NoRow => Stored(req[t].victim_id) = {})
         => /\ pc'[t] = "committed"
            /\ \A r \in table : r.victim_id # req[t].victim_id => r \in table']_vars

\* two submissions for distinct victim_ids are in flight together and one of
\* them has committed
C12_ConcurrentWitness ==
    \E t \in Threads, u \in Threads :
       /\ pc[t] = "committed"
       /\ pc[u] = "assigned"
       /\ req[t].victim_id # req[u].victim_id
       /\ Stored(req[t].victim_id) # {}

=============================================================================
